---- MODULE Spec2Model ----
(***************************************************************************)
(* The FlashResults component of                                           *)
(* src/lib/gui/app/components/flash-results/flash-results.tsx:             *)
(* its inputs (props), its one piece of local state (showErrorsInfo), the  *)
(* external state its handlers act on (the drive selection, the flash      *)
(* state, the screen shown), what it renders, and its three event handlers *)
(* (the 'more info' link, the dialog's cancel and the dialog's done).      *)
(*                                                                         *)
(* Strings are sequences of one-character strings, so that formatting,     *)
(* joining and splitting into lines are computed character by character.   *)
(* JavaScript numbers are [kind, num, den]: a finite non-negative rational *)
(* num/den, Infinity, or NaN (the inputs are non-negative; the rounding    *)
(* error of doubles is not modelled).                                      *)
(***************************************************************************)
EXTENDS Integers, Sequences, FiniteSets

VARIABLES
    errors,          \* prop: FlashError[]
    skip,            \* prop: boolean
    results,         \* prop: the results summary
    showErrorsInfo,  \* React.useState(false)
    selectedDrives,  \* models/selection-state: the devices selected
    flashState,      \* models/flash-state: "finished" until resetState()
    screen,          \* what the caller shows: "finish" until goToMain()
    calls,           \* the calls made by the last event handler, in order
    event            \* the last event handled: "mount" before the first

vars == <<errors, skip, results, showErrorsInfo, selectedDrives, flashState,
          screen, calls, event>>

\* ------------------------------------------------------------- bounds
MaxDrives == 2    \* drives the machine has
MaxErrors == 2    \* entries of the errors prop
MaxDevices == 2   \* results.devices.failed, results.devices.successful
MaxLen == 1       \* characters of an error's message or code
MaxSize == 2      \* sourceMetadata.size, in half megabytes
MaxBytes == 2     \* results.bytesWritten
MaxSpeed == 2     \* results.averageFlashingSpeed

\* ------------------------------------------------------------ strings
NL == "\n"

Letters == <<"a", "b", "c", "d", "e", "f">>

\* The device path of the i-th drive: "sda", "sdb", ...
Device(i) == <<"s", "d", Letters[i]>>

DeviceNames == {Device(i) : i \in 1..MaxDrives}

\* The drives the machine has, in the order selection-state lists them.
availableDrives == [i \in 1..MaxDrives |-> Device(i)]

\* The characters of messages (a letter and the line break) and of codes.
MessageChars == {"m", NL}
CodeChars == {"E"}

Strings(chars, n) == UNION {[1..k -> chars] : k \in 0..n}

\* Array.prototype.join
RECURSIVE Join(_, _)
Join(parts, sep) ==
    IF Len(parts) = 0 THEN <<>>
    ELSE IF Len(parts) = 1 THEN parts[1]
    ELSE parts[1] \o sep \o Join(Tail(parts), sep)

\* ------------------------------------------------------ formattedErrors
\* error.message || error.code: the empty string is falsy.
MessageOrCode(error) ==
    IF error.message # <<>> THEN error.message ELSE error.code

\* Mutant: the code is shown even when there is a message.
FormatErrorCodeOnly(error) == error.device \o <<":", " ">> \o error.code

\* `${error.device}: ${error.message || error.code}`
FormatError(error) == error.device \o <<":", " ">> \o MessageOrCode(error)

formattedErrors(errs) ==
    Join([i \in 1..Len(errs) |-> FormatError(errs[i])], <<NL>>)

\* ------------------------------------------------------------- columns
\* The render of the 'message' column: message ? message : code.
RenderMessage(message, error) ==
    IF message # <<>> THEN message ELSE error.code

\* <ErrorsTable columns={columns} data={errors} />: one row per entry of
\* data, one cell per column (Target, Location, Error).
ErrorsTable(errs) ==
    [i \in 1..Len(errs) |->
        [Target |-> errs[i].description,
         Location |-> errs[i].device,
         Error |-> RenderMessage(errs[i].message, errs[i])]]

\* ------------------------------------------------------------ DoneIcon
Gray == "#c6c8c9"
Green == "#1ac135"

\* Mutant: the failure glyph whenever all failed, skipped or not.
DoneIconIgnoresSkipped(skipped, allFailedP, someFailed) ==
    LET someOrAllFailed == allFailedP \/ someFailed
    IN [glyph |-> IF allFailedP THEN "TimesCircleSvg" ELSE "CheckCircleSvg",
        fill |-> IF someOrAllFailed THEN Gray ELSE Green]

\* Mutant: the colour follows someFailed alone.
DoneIconSomeFailedOnly(skipped, allFailedP, someFailed) ==
    [glyph |-> IF allFailedP /\ ~skipped THEN "TimesCircleSvg"
               ELSE "CheckCircleSvg",
     fill |-> IF someFailed THEN Gray ELSE Green]

DoneIcon(skipped, allFailedP, someFailed) ==
    LET someOrAllFailed == allFailedP \/ someFailed
    IN [glyph |-> IF allFailedP /\ ~skipped THEN "TimesCircleSvg"
                  ELSE "CheckCircleSvg",
        fill |-> IF someOrAllFailed THEN Gray ELSE Green]

\* ---------------------------------------------------------- JS numbers
Fin(n, d) == [kind |-> "finite", num |-> n, den |-> d]
Infinity == [kind |-> "Infinity", num |-> 0, den |-> 1]
NaN == [kind |-> "NaN", num |-> 0, den |-> 1]

\* x / y of IEEE 754 on non-negative operands.
JsDiv(x, y) ==
    IF x.kind = "NaN" \/ y.kind = "NaN" THEN NaN
    ELSE IF x.kind = "Infinity"
         THEN (IF y.kind = "Infinity" THEN NaN ELSE Infinity)
    ELSE IF y.kind = "Infinity" THEN Fin(0, 1)
    ELSE IF y.num = 0 THEN (IF x.num = 0 THEN NaN ELSE Infinity)
    ELSE Fin(x.num * y.den, x.den * y.num)

MEGABYTE_TO_BYTE_RATIO == 1000000

bytesToMegabytes(bytes) == JsDiv(bytes, Fin(MEGABYTE_TO_BYTE_RATIO, 1))

\* _.round(x, 1): to the nearest tenth, halves up; Infinity and NaN are
\* returned as they are. The finite result is kept in tenths.
Round1(x) ==
    IF x.kind = "finite"
    THEN Fin((2 * 10 * x.num + x.den) \div (2 * x.den), 10)
    ELSE x

\* --------------------------------------------------------- FlashResults
\* Mutant: all failed taken to mean that some device failed.
allFailedBySomeFailed == results.devices.failed # 0

allFailed == results.devices.successful = 0

effectiveSpeed ==
    Round1(bytesToMegabytes(
        JsDiv(Fin(results.sourceMetadata.size, 1),
              JsDiv(Fin(results.bytesWritten, 1),
                    Fin(results.averageFlashingSpeed, 1)))))

\* <DoneIcon skipped={skip} allFailed={allFailed} someFailed={failed !== 0} />
doneIcon == DoneIcon(skip, allFailed, results.devices.failed # 0)

\* Object.entries(results.devices), in the order of the declared type.
DeviceTypes == <<"failed", "successful">>

\* Mutant: the row is rendered whatever the quantity.
SummaryRowAlways(type, quantity) ==
    LET failedTargets == type = "failed"
    IN <<[type |-> type,
          quantity |-> quantity,
          fill |-> IF failedTargets THEN "#ff4444" ELSE Green,
          hasTooltip |-> failedTargets,
          tooltip |-> IF failedTargets THEN formattedErrors(errors) ELSE <<>>,
          moreInfo |-> failedTargets]>>

\* The row of one category, or none: quantity ? <Flex>...</Flex> : null.
SummaryRow(type, quantity) ==
    LET failedTargets == type = "failed"
    IN IF quantity # 0
       THEN <<[type |-> type,
               quantity |-> quantity,
               fill |-> IF failedTargets THEN "#ff4444" ELSE Green,
               hasTooltip |-> failedTargets,
               tooltip |-> IF failedTargets THEN formattedErrors(errors)
                           ELSE <<>>,
               moreInfo |-> failedTargets]>>
       ELSE <<>>

RECURSIVE RowsOf(_)
RowsOf(types) ==
    IF types = <<>> THEN <<>>
    ELSE SummaryRow(Head(types), results.devices[Head(types)])
            \o RowsOf(Tail(types))

summaryRows == RowsOf(DeviceTypes)

\* {!allFailed && <Txt>Effective speed: {effectiveSpeed} MB/s</Txt>}
speedLineRendered == ~allFailed

\* {showErrorsInfo && <Modal ...>}
modalRendered == showErrorsInfo

\* Mutant: the link is rendered outside the rows.
moreInfoRenderedAlways == TRUE

\* The 'more info' link is there to click when some rendered row has it.
moreInfoRendered ==
    \E i \in 1..Len(summaryRows) : summaryRows[i].moreInfo

\* ------------------------------------------- the handlers' environment
\* What a handler reads and writes, threaded through its statements.
State ==
    [showErrorsInfo |-> showErrorsInfo, selectedDrives |-> selectedDrives,
     flashState |-> flashState, screen |-> screen, calls |-> <<>>]

Call(op, device) == [op |-> op, device |-> device]

setShowErrorsInfo(st, v) ==
    [st EXCEPT !.showErrorsInfo = v,
               !.calls = @ \o <<Call(IF v THEN "show" ELSE "hide", <<>>)>>]

resetState(st) ==
    [st EXCEPT !.flashState = "reset",
               !.calls = @ \o <<Call("resetState", <<>>)>>]

\* selection.getSelectedDrives(): the available drives that are selected.
getSelectedDrives(st) ==
    SelectSeq(availableDrives, LAMBDA d : d \in st.selectedDrives)

\* selection.deselectDrive(device)
deselectDrive(st, device) ==
    [st EXCEPT !.selectedDrives = @ \ {device},
               !.calls = @ \o <<Call("deselectDrive", device)>>]

goToMain(st) ==
    [st EXCEPT !.screen = "main",
               !.calls = @ \o <<Call("goToMain", <<>>)>>]

\* Mutant: some in place of every.
NotFailedBySome(drive) ==
    \E i \in 1..Len(errors) : errors[i].device # drive

\* (drive) => errors.every((error) => error.device !== drive.device)
NotFailed(drive) ==
    \A i \in 1..Len(errors) : errors[i].device # drive

\* drives.forEach((drive) => selection.deselectDrive(drive.device))
RECURSIVE DeselectEach(_, _)
DeselectEach(st, drives) ==
    IF drives = <<>> THEN st
    ELSE DeselectEach(deselectDrive(st, Head(drives)), Tail(drives))

\* Mutant: cancel resets the flash state as done does.
cancelResets(st) == resetState(setShowErrorsInfo(st, FALSE))

\* cancel={() => setShowErrorsInfo(false)}
cancel(st) == setShowErrorsInfo(st, FALSE)

\* Mutant: done navigates before it deselects.
doneNavigatesFirst(st) ==
    LET s1 == setShowErrorsInfo(st, FALSE)
        s2 == goToMain(resetState(s1))
    IN DeselectEach(s2, SelectSeq(getSelectedDrives(s2), NotFailed))

\* done={() => { ... }}
done(st) ==
    LET s1 == setShowErrorsInfo(st, FALSE)
        s2 == resetState(s1)
        s3 == DeselectEach(s2, SelectSeq(getSelectedDrives(s2), NotFailed))
    IN goToMain(s3)

\* onClick={() => setShowErrorsInfo(true)}
moreInfo(st) == setShowErrorsInfo(st, TRUE)

\* ------------------------------------------------------------- actions
Handled(name, st) ==
    /\ event' = name
    /\ showErrorsInfo' = st.showErrorsInfo
    /\ selectedDrives' = st.selectedDrives
    /\ flashState' = st.flashState
    /\ screen' = st.screen
    /\ calls' = st.calls
    /\ UNCHANGED <<errors, skip, results>>

MoreInfo == moreInfoRendered /\ Handled("moreInfo", moreInfo(State))

Cancel == modalRendered /\ Handled("cancel", cancel(State))

Done == modalRendered /\ Handled("done", done(State))

Next == MoreInfo \/ Cancel \/ Done

\* -------------------------------------------------------------- inputs
FlashErrors(devices, messages, codes) ==
    [description : {<<"D">>}, device : devices, message : messages,
     code : codes]

ErrorLists(n, errs) == UNION {[1..k -> errs] : k \in 0..n}

Results(sizes, written, speeds, failed, successful) ==
    [bytesWritten : written,
     sourceMetadata : [size : sizes, blockmappedSize : {0}],
     averageFlashingSpeed : speeds,
     devices : [failed : failed, successful : successful]]

Mounted ==
    /\ showErrorsInfo = FALSE
    /\ flashState = "finished"
    /\ screen = "finish"
    /\ calls = <<>>
    /\ event = "mount"

\* Any errors over the drives, any counts, any selection.
Init ==
    /\ errors \in ErrorLists(MaxErrors,
                             FlashErrors(DeviceNames, {<<>>}, {<<"E">>}))
    /\ skip \in BOOLEAN
    /\ results \in Results({200}, {100}, {10}, 0..MaxDevices, 0..MaxDevices)
    /\ selectedDrives \in SUBSET DeviceNames
    /\ Mounted

Spec == Init /\ [][Next]_vars

\* Any texts of the errors of one drive.
InitText ==
    /\ errors \in ErrorLists(MaxErrors,
                             FlashErrors({Device(1)},
                                         Strings(MessageChars, MaxLen),
                                         Strings(CodeChars, MaxLen)))
    /\ skip = FALSE
    /\ results \in Results({200}, {100}, {10}, 0..1, {1})
    /\ selectedDrives = DeviceNames
    /\ Mounted

SpecText == InitText /\ [][Next]_vars

\* Any sizes, bytes written and speeds.
InitSpeed ==
    /\ errors = <<>>
    /\ skip = FALSE
    /\ results \in Results({k * (MEGABYTE_TO_BYTE_RATIO \div 2) : k \in 0..MaxSize},
                           0..MaxBytes, 0..MaxSpeed, 0..1, 0..1)
    /\ selectedDrives = DeviceNames
    /\ Mounted

SpecSpeed == InitSpeed /\ [][Next]_vars

\* -------------------------------------------------------------- claims
IsCall(c, op) == c.op = op

CallsOf(op) == {i \in 1..Len(calls) : IsCall(calls[i], op)}

FailedDevices == {errors[i].device : i \in 1..Len(errors)}

\* C1: a step that handles the dialog's confirmation leaves selected
\* exactly the drives that were selected and whose device is the device of
\* some error: the others are deselected and none becomes selected.
C1_DoneKeepsFailedSelected ==
    [][event' = "done" =>
          selectedDrives' = {d \in selectedDrives : d \in FailedDevices}]_vars

\* A confirmation that deselected a drive and kept another.
C1_Witness ==
    /\ event = "done"
    /\ selectedDrives # {}
    /\ CallsOf("deselectDrive") # {}

\* C2: a confirmation calls, in this order and each once, the hiding of the
\* dialog, resetState, deselectDrive for each selected drive with no error
\* (and for no other), and last goToMain; no other event calls goToMain or
\* changes the screen.
C2_DoneCallOrder ==
    [][/\ event' = "done" =>
            LET n == Len(calls')
                ToDeselect == {d \in selectedDrives : d \notin FailedDevices}
            IN /\ n >= 3
               /\ calls'[1] = Call("hide", <<>>)
               /\ calls'[2] = Call("resetState", <<>>)
               /\ calls'[n] = Call("goToMain", <<>>)
               /\ \A i \in 3..(n - 1) : calls'[i].op = "deselectDrive"
               /\ {calls'[i].device : i \in 3..(n - 1)} = ToDeselect
               /\ n - 3 = Cardinality(ToDeselect)
               /\ screen' = "main"
               /\ flashState' = "reset"
               /\ ~showErrorsInfo'
       /\ event' # "done" =>
            /\ \A i \in 1..Len(calls') : calls'[i].op # "goToMain"
            /\ screen' = screen]_vars

\* A confirmation with two deselections between resetState and goToMain.
C2_Witness ==
    /\ event = "done"
    /\ Len(calls) = 5
    /\ calls[5].op = "goToMain"

\* C3: a step that handles the dialog's cancel hides the dialog and changes
\* neither the selection, the flash state nor the screen, and calls none of
\* resetState, deselectDrive and goToMain.
C3_CancelOnlyHides ==
    [][event' = "cancel" =>
          /\ showErrorsInfo' = FALSE
          /\ selectedDrives' = selectedDrives
          /\ flashState' = flashState
          /\ screen' = screen
          /\ calls' = <<Call("hide", <<>>)>>
          /\ UNCHANGED <<errors, skip, results>>]_vars

\* A cancelled dialog with drives still selected and nothing reset.
C3_Witness ==
    /\ event = "cancel"
    /\ ~showErrorsInfo
    /\ selectedDrives # {}
    /\ flashState = "finished"

\* C4: with devices.successful = 0 the icon is the failure glyph unless skip
\* is true, and then it is the success glyph; with devices.successful not 0
\* it is the success glyph whatever skip and devices.failed are.
C4_IconGlyph ==
    /\ results.devices.successful = 0 =>
          doneIcon.glyph = (IF skip THEN "CheckCircleSvg" ELSE "TimesCircleSvg")
    /\ results.devices.successful # 0 => doneIcon.glyph = "CheckCircleSvg"
    /\ doneIcon.glyph = "TimesCircleSvg" <=>
          (results.devices.successful = 0 /\ ~skip)

\* All devices failed and validation was skipped: the success glyph.
C4_Witness ==
    /\ results.devices.successful = 0
    /\ results.devices.failed # 0
    /\ skip
    /\ doneIcon.glyph = "CheckCircleSvg"

\* C5 as stated: whenever the success glyph is shown it is gray exactly when
\* devices.failed is not 0 and green exactly when devices.failed is 0.
C5_GrayIffSomeFailed ==
    doneIcon.glyph = "CheckCircleSvg" =>
        /\ doneIcon.fill = Gray <=> results.devices.failed # 0
        /\ doneIcon.fill = Green <=> results.devices.failed = 0

\* C5 as amended: whenever the success glyph is shown it is gray exactly
\* when devices.failed is not 0 or devices.successful is 0, and green
\* exactly when devices.failed is 0 and devices.successful is not 0.
C5_GrayIffSomeOrAllFailed ==
    doneIcon.glyph = "CheckCircleSvg" =>
        /\ doneIcon.fill = Gray <=>
              (results.devices.failed # 0 \/ results.devices.successful = 0)
        /\ doneIcon.fill = Green <=>
              (results.devices.failed = 0 /\ results.devices.successful # 0)

\* Validation skipped, no device successful, none failed: a gray success
\* glyph.
C5_Witness ==
    /\ skip
    /\ results.devices.successful = 0
    /\ results.devices.failed = 0
    /\ doneIcon = [glyph |-> "CheckCircleSvg", fill |-> Gray]

\* C6: the 'Effective speed' line is rendered exactly when
\* devices.successful is not 0, dialog open or closed, skip true or false.
C6_SpeedLineIffSomeSuccessful ==
    speedLineRendered <=> results.devices.successful # 0

\* The dialog open, validation skipped, no device successful: no line.
C6_Witness ==
    /\ showErrorsInfo
    /\ skip
    /\ results.devices.successful = 0
    /\ ~speedLineRendered

RowsOfType(t) == {i \in 1..Len(summaryRows) : summaryRows[i].type = t}

\* C7: a category of results.devices with quantity 0 has no summary row and
\* one with a quantity not 0 has exactly one, showing that quantity; the
\* rows that carry the error tooltip and the 'more info' link are exactly
\* the rows of the 'failed' category.
C7_SummaryRows ==
    /\ \A t \in {"failed", "successful"} :
          Cardinality(RowsOfType(t)) = (IF results.devices[t] = 0 THEN 0 ELSE 1)
    /\ Len(summaryRows) =
          Cardinality(RowsOfType("failed")) + Cardinality(RowsOfType("successful"))
    /\ \A i \in 1..Len(summaryRows) :
          LET row == summaryRows[i]
          IN /\ row.quantity = results.devices[row.type]
             /\ row.hasTooltip <=> row.type = "failed"
             /\ row.moreInfo <=> row.type = "failed"
             /\ row.hasTooltip => row.tooltip = formattedErrors(errors)

\* Some devices failed and none was successful: the one row, of 'failed'.
C7_Witness ==
    /\ results.devices.failed # 0
    /\ results.devices.successful = 0
    /\ Len(summaryRows) = 1
    /\ summaryRows[1].moreInfo

\* The pieces of a text between the occurrences of a character.
RECURSIVE Split(_, _)
Split(text, c) ==
    IF \A i \in 1..Len(text) : text[i] # c THEN <<text>>
    ELSE LET k == CHOOSE i \in 1..Len(text) :
                      text[i] = c /\ \A j \in 1..(i - 1) : text[j] # c
         IN <<SubSeq(text, 1, k - 1)>>
                \o Split(SubSeq(text, k + 1, Len(text)), c)

\* The lines of a text: none for the empty text.
Lines(text) == IF text = <<>> THEN <<>> ELSE Split(text, NL)

\* The line of the tooltip an error is to have.
ErrorLine(e) ==
    e.device \o <<":", " ">> \o (IF Len(e.message) > 0 THEN e.message ELSE e.code)

HasLineBreak(str) == \E i \in 1..Len(str) : str[i] = NL

NoLineBreaks ==
    \A i \in 1..Len(errors) :
        /\ ~HasLineBreak(errors[i].device)
        /\ ~HasLineBreak(errors[i].message)
        /\ ~HasLineBreak(errors[i].code)

\* The dialog's table, when rendered, and the failed row's tooltip, when
\* rendered, list the errors prop entry by entry, in its order.
SameErrorsListed ==
    /\ modalRendered =>
          /\ Len(ErrorsTable(errors)) = Len(errors)
          /\ \A i \in 1..Len(errors) :
                /\ ErrorsTable(errors)[i].Location = errors[i].device
                /\ ErrorsTable(errors)[i].Target = errors[i].description
                /\ ErrorsTable(errors)[i].Error =
                      (IF Len(errors[i].message) > 0 THEN errors[i].message
                       ELSE errors[i].code)
    /\ \A r \in 1..Len(summaryRows) :
          summaryRows[r].hasTooltip =>
              LET lines == Lines(summaryRows[r].tooltip)
              IN /\ Len(lines) = Len(errors)
                 /\ \A i \in 1..Len(errors) : lines[i] = ErrorLine(errors[i])

C9_EffectiveSpeedWellDefined ==
    results.devices.successful # 0 =>
        /\ effectiveSpeed.kind = "finite"
        /\ (results.bytesWritten # 0 /\ results.averageFlashingSpeed # 0) =>
              LET n == results.sourceMetadata.size * results.averageFlashingSpeed
                  d == results.bytesWritten * MEGABYTE_TO_BYTE_RATIO
              IN effectiveSpeed = Fin((2 * 10 * n + d) \div (2 * d), 10)

NothingHandled ==
    /\ event = "mount"
    /\ calls = <<>>
    /\ flashState = "finished"
    /\ screen = "finish"

\* C10: the dialog starts hidden, is shown only by the 'more info' action
\* and is hidden by cancel and by confirm; whenever it is visible
\* devices.failed is not 0, and with devices.failed = 0 no handler ever
\* runs (nothing is reset, deselected or navigated).
C10_DialogOnlyWithFailures ==
    /\ ~showErrorsInfo
    /\ [](showErrorsInfo => results.devices.failed # 0)
    /\ [](results.devices.failed = 0 => ~showErrorsInfo /\ NothingHandled)
    /\ [][/\ (~showErrorsInfo /\ showErrorsInfo') => event' = "moreInfo"
          /\ event' \in {"cancel", "done"} => ~showErrorsInfo'
          /\ (showErrorsInfo /\ ~showErrorsInfo') =>
                event' \in {"cancel", "done"}]_vars

\* The dialog open, then closed again by a confirmation.
C10_Witness ==
    /\ event = "done"
    /\ ~showErrorsInfo
    /\ results.devices.failed # 0

====
